---- MODULE Spec2Model ----
(***************************************************************************)
(* imagelink: make date-based symbolic links for image files.              *)
(*                                                                         *)
(* Text (str, OsString, PathBuf) is a sequence of one-character strings.   *)
(* Two elements stand for what is not a plain character: "xFF" is a byte   *)
(* that is not valid UTF-8, "uFFFD" is U+FFFD REPLACEMENT CHARACTER.       *)
(***************************************************************************)
EXTENDS Integers, Sequences, FiniteSets, TLC

\* Number of positional file arguments and of --list options of a run.
MaxPos == 1
MaxLists == 2

\* Option: None, or Some(v) with the value Get(o)
None == <<>>
Some(v) == <<v>>
Get(o) == o[1]

------------------------------------------------------------------------------
\* Text

Digits == {"0", "1", "2", "3", "4", "5", "6", "7", "8", "9"}
WhiteSpace == {" ", "\t"}

RECURSIVE MapText(_, _, _)
\* s with every element `from` replaced by `to`
MapText(s, from, to) ==
    IF s = <<>> THEN <<>>
    ELSE <<IF Head(s) = from THEN to ELSE Head(s)>> \o MapText(Tail(s), from, to)

\* OsStr::to_string_lossy: invalid UTF-8 becomes U+FFFD
to_string_lossy(s) == MapText(s, "xFF", "uFFFD")

\* a replace that replaces nothing
keep_spaces(s) == s

\* str::replace(" ", "-")
replace_space(s) == MapText(s, " ", "-")

RECURSIVE trim_start(_)
trim_start(s) ==
    IF s # <<>> /\ Head(s) \in WhiteSpace THEN trim_start(Tail(s)) ELSE s

RECURSIVE trim_end(_)
trim_end(s) ==
    IF s # <<>> /\ s[Len(s)] \in WhiteSpace
    THEN trim_end(SubSeq(s, 1, Len(s) - 1)) ELSE s

\* str::trim
trim(s) == trim_end(trim_start(s))

------------------------------------------------------------------------------
\* std::path

RECURSIVE Split(_, _, _)
\* the pieces of p between "/" characters, from its i-th character on; cur is
\* the piece being read
Split(p, i, cur) ==
    IF i > Len(p) THEN <<cur>>
    ELSE IF p[i] = "/" THEN <<cur>> \o Split(p, i + 1, <<>>)
    ELSE Split(p, i + 1, Append(cur, p[i]))

has_root(p) == p # <<>> /\ p[1] = "/"

CurDir == <<".">>
ParentDir == <<".", ".">>

RECURSIVE Normal(_, _, _)
\* the pieces that are components: empty pieces are dropped, and so is every
\* "." but a leading one of a relative path
Normal(raw, i, rooted) ==
    IF i > Len(raw) THEN <<>>
    ELSE IF raw[i] = <<>> \/ (raw[i] = CurDir /\ (i > 1 \/ rooted))
    THEN Normal(raw, i + 1, rooted)
    ELSE <<raw[i]>> \o Normal(raw, i + 1, rooted)

\* Path::components, without the root
parts(p) == Normal(Split(p, 1, <<>>), 1, has_root(p))

\* Path::file_name: the last component when it is a normal one
file_name(p) ==
    LET c == parts(p)
    IN  IF c = <<>> \/ c[Len(c)] \in {CurDir, ParentDir} THEN None
        ELSE Some(c[Len(c)])

\* PathBuf::push: an absolute path replaces self, a relative one is appended
\* after a separator
push(self, p) ==
    IF has_root(p) THEN p
    ELSE IF self # <<>> /\ self[Len(self)] # "/" THEN self \o <<"/">> \o p
    ELSE self \o p

RECURSIVE Walk(_, _)
\* the directory reached from `at` (a sequence of names below the root) by
\* following the components c
Walk(at, c) ==
    IF c = <<>> THEN at
    ELSE IF Head(c) = CurDir THEN Walk(at, Tail(c))
    ELSE IF Head(c) = ParentDir
         THEN Walk(IF at = <<>> THEN at ELSE SubSeq(at, 1, Len(at) - 1), Tail(c))
    ELSE Walk(Append(at, Head(c)), Tail(c))

\* the current directory of the process
Cwd == << <<"w">> >>

\* the place a path names, looked up from directory `dir`
ResolveFrom(dir, p) == Walk(IF has_root(p) THEN <<>> ELSE dir, parts(p))

Resolve(p) == ResolveFrom(Cwd, p)

\* Path::parent: the path without its last component; None for "" and "/"
HasParent(p) == parts(p) # <<>>

ResolveParent(p) ==
    LET c == parts(p)
    IN  Walk(IF has_root(p) THEN <<>> ELSE Cwd, SubSeq(c, 1, Len(c) - 1))

------------------------------------------------------------------------------
\* The date pattern and its substitution

\* DATE_REGEX matches the 19 characters of s that start at i
MatchAt(s, i) ==
    /\ i + 18 <= Len(s)
    /\ \A k \in {0, 1, 2, 3, 5, 6, 8, 9, 11, 12, 14, 15, 17, 18} : s[i + k] \in Digits
    /\ s[i + 4] = "-" /\ s[i + 7] = "-"
    /\ s[i + 10] = " "
    /\ s[i + 13] = ":" /\ s[i + 16] = ":"

\* the expansion of "$y/$m/$d/$H-$M-$S-" for the match that starts at i
Expand(s, i) ==
    SubSeq(s, i, i + 3) \o <<"/">> \o SubSeq(s, i + 5, i + 6) \o <<"/">>
    \o SubSeq(s, i + 8, i + 9) \o <<"/">> \o SubSeq(s, i + 11, i + 12) \o <<"-">>
    \o SubSeq(s, i + 14, i + 15) \o <<"-">> \o SubSeq(s, i + 17, i + 18) \o <<"-">>

RECURSIVE ReplaceFrom(_, _)
ReplaceFrom(s, i) ==
    IF i > Len(s) THEN <<>>
    ELSE IF MatchAt(s, i) THEN Expand(s, i) \o ReplaceFrom(s, i + 19)
    ELSE <<s[i]>> \o ReplaceFrom(s, i + 1)

\* DATE_REGEX.replace_all(s, "$y/$m/$d/$H-$M-$S-"): every match, left to right
replace_all(s) == ReplaceFrom(s, 1)

------------------------------------------------------------------------------
\* Metadata

\* DATETIME: the attributes that give the date of the photo, in priority order
DATETIME == <<"DateTimeDigitized", "DateTimeOriginal", "DateTime">>

Tags == {"DateTimeDigitized", "DateTimeOriginal", "DateTime", "MakerNote"}
Ifds == {"PRIMARY", "THUMBNAIL"}

\* the order in which Exif::fields yields the fields of a file
FieldOrder ==
    << <<"MakerNote", "PRIMARY">>, <<"DateTime", "PRIMARY">>,
       <<"DateTimeOriginal", "PRIMARY">>, <<"DateTimeDigitized", "PRIMARY">>,
       <<"DateTimeDigitized", "THUMBNAIL">> >>

\* The text Value::display_value shows for the values a field may hold: three
\* dates, a value the library cannot read as a date and shows quoted, and a note
DT1 == <<"2","0","1","6","-","0","5","-","0","4"," ","0","3",":","0","2",":","0","1">>
DT2 == <<"1","9","9","9","-","1","2","-","3","1"," ","2","3",":","5","9",":","5","9">>
DT3 == <<"2","0","2","0","-","0","1","-","0","2"," ","1","0",":","2","0",":","3","0">>
DTBad == <<"\"", "x", "\"">>
Note == <<"n">>

display_value(v) ==
    CASE v = "date1" -> DT1
      [] v = "date2" -> DT2
      [] v = "date3" -> DT3
      [] v = "nodate" -> DTBad
      [] OTHER -> Note

\* Exif::get_field
get_field(exif, tag, ifd) == exif[<<tag, ifd>>]

\* the metadata with the given values (Some(v) or None) for the five fields
ExifOf(dig, orig, dt, thumb, note) ==
    [f \in Tags \X Ifds |->
        IF f = <<"DateTimeDigitized", "PRIMARY">> THEN dig
        ELSE IF f = <<"DateTimeOriginal", "PRIMARY">> THEN orig
        ELSE IF f = <<"DateTime", "PRIMARY">> THEN dt
        ELSE IF f = <<"DateTimeDigitized", "THUMBNAIL">> THEN thumb
        ELSE IF f = <<"MakerNote", "PRIMARY">> THEN note
        ELSE None]

NoFields == ExifOf(None, None, None, None, None)

\* the metadata a file may have: each date field of the primary image present
\* or not, with or without other fields (a date of the thumbnail, a note)
Exifs ==
    { ExifOf(dig, orig, dt, IF others THEN Some("date3") ELSE None,
             IF others THEN Some("note") ELSE None) :
        dig \in {None, Some("date1"), Some("nodate")}, orig \in {None, Some("date2")},
        dt \in {None, Some("date3")}, others \in BOOLEAN }

\* exif::Tag::description
description(tag) ==
    CASE tag = "DateTimeDigitized" -> Some("Date and time of digital data generation")
      [] tag = "DateTimeOriginal" -> Some("Date and time of original data generation")
      [] tag = "DateTime" -> Some("File change date and time")
      [] OTHER -> None

------------------------------------------------------------------------------
\* Results and printed lines

Ok(v, out) == [ok |-> TRUE, val |-> v, out |-> out]
Err(e, out) == [ok |-> FALSE, err |-> e, out |-> out]

\* println!("# error: {}", e)
ErrorLine(e) == [k |-> "error", e |-> e]
\* lines printed only with --verbose (or, for the fields, with --exif)
Noise(what, v) == [k |-> "verbose", what |-> what, v |-> v]

------------------------------------------------------------------------------
\* State

VARIABLES
    verbose, dump, no_execute,  \* the flags --verbose, --exif, --no-execute
    base_set, base,             \* whether --base was given, and the base directory
    args_file, lists,           \* the positional arguments and the --list arguments
    files,                      \* the files to link
    li, fi,                     \* the next list to read, the next file to handle
    pc,                         \* "lists", "files", "done" or "panic"
    disk,                       \* what each path names on disk
    dirs, links,                \* the directories and symbolic links that exist
    dirs0, links0,              \* those that existed when the run began
    printed,                    \* the lines printed by the latest step
    last,                       \* the values computed for the latest file
    handled                     \* the files handled so far, in order

vars ==
    <<verbose, dump, no_execute, base_set, base, args_file, lists, files, li, fi,
      pc, disk, dirs, links, dirs0, links0, printed, last, handled>>

------------------------------------------------------------------------------
\* The functions of main.rs

\* the size below which a file is taken for a thumbnail
MinLen == 100 * 1024

\* a thumbnail test that also rejects a file of exactly MinLen bytes
too_small_or_equal(len) == len <= MinLen

\* get_exif, line 232
too_small(len) == len < MinLen

\* the lines get_exif prints for the fields of exif
FieldLines(exif) ==
    LET shown(f) == exif[f] # None /\ f[1] # "MakerNote"
        sel == SelectSeq(FieldOrder, shown)
    IN  [i \in 1..Len(sel) |-> Noise("field", <<sel[i], display_value(Get(exif[sel[i]]))>>)]

get_exif(path, verbose_) ==
    LET c == disk[path]
    IN  IF ~c.open THEN Err([kind |-> "Open", path |-> path], <<>>)
        ELSE IF c.known /\ too_small(c.len)
        THEN Err([kind |-> "TooSmall", path |-> path, len |-> c.len], <<>>)
        ELSE IF ~c.parse THEN Err([kind |-> "Parse", path |-> path], <<>>)
        ELSE Ok(c.exif, IF verbose_ THEN FieldLines(c.exif) ELSE <<>>)

RECURSIVE first_from(_, _, _, _)
\* the loop of first_of, from the i-th tag on
first_from(path, exif, tags, i) ==
    IF i > Len(tags)
    THEN LET d == description(tags[1])
         IN  Err([kind |-> "MissingField", path |-> path,
                  field |-> IF d = None THEN "[unknown]" ELSE Get(d)], <<>>)
    ELSE IF get_field(exif, tags[i], "PRIMARY") # None
    THEN Ok(display_value(Get(get_field(exif, tags[i], "PRIMARY"))), <<>>)
    ELSE first_from(path, exif, tags, i + 1)

\* a search that gives the last tags priority
first_of_reversed(path, exif, tags) ==
    LET n == Len(tags)
        r == [i \in 1..n |-> tags[n + 1 - i]]
    IN  IF first_from(path, exif, r, 1).ok THEN first_from(path, exif, r, 1)
        ELSE first_from(path, exif, tags, 1)

\* a search that also looks at the thumbnail
first_of_any_image(path, exif, tags) ==
    LET hits == { i \in 1..Len(tags) : \E ifd \in Ifds : get_field(exif, tags[i], ifd) # None }
        i == CHOOSE h \in hits : \A g \in hits : h <= g
        ifd == CHOOSE d \in Ifds : get_field(exif, tags[i], d) # None
    IN  IF hits = {} THEN first_from(path, exif, tags, 1)
        ELSE Ok(display_value(Get(get_field(exif, tags[i], ifd))), <<>>)

first_of(path, exif, tags) == first_from(path, exif, tags, 1)

link_name(exif, path, base_, verbose_) ==
    LET datetime == first_of(path, exif, DATETIME)
    IN  IF ~datetime.ok THEN datetime
        ELSE
        LET res == replace_all(datetime.val)
            s == IF file_name(path) # None THEN to_string_lossy(Get(file_name(path)))
                 ELSE to_string_lossy(path)
            s2 == replace_space(s)
            target == base_ \o <<"/">> \o res \o s2
        IN  Ok(target,
               IF verbose_
               THEN <<Noise("datetime", datetime.val), Noise("datetime", res),
                      Noise("target", target)>>
               ELSE <<>>)

\* the text of the link for file: main, lines 174-181
link_source(file) ==
    LET s0 == <<>>
        s1 == IF base_set THEN push(s0, <<".", ".">>) ELSE s0
        s2 == push(s1, <<".", ".", "/", ".", ".", "/", ".", ".">>)
    IN  push(s2, file)

------------------------------------------------------------------------------
\* The file system

\* Path::exists, for a directory
Exists(place) == place \in dirs

Prefixes(d) == { SubSeq(d, 1, n) : n \in 0..Len(d) }

\* symlink can make a link called name (None unless the path ends in a normal
\* component) in the directory parent
CanLink(parent, name, ds, ls) ==
    /\ name # None
    /\ parent \in ds
    /\ Append(parent, Get(name)) \notin ds
    /\ \A l \in ls : l.at # Append(parent, Get(name))

------------------------------------------------------------------------------
\* The inputs of a run

pA == <<"a", ".", "j", "p", "g">>
pPic == <<"d", "/", "b", " ", "c", ".", "j", "p", "g">>
pAbs == <<"/", "w", "/", "e", ".", "j", "p", "g">>
pSmall == <<"t", ".", "j", "p", "g">>
pUp == <<"d", "/", ".", ".">>
pRaw == <<"x", "xFF", ".", "j", "p", "g">>
pBlank == <<>>

Paths == {pA, pPic, pAbs, pSmall, pUp, pRaw, pBlank}

\* what a path names: whether it can be opened, whether its length is known
\* and the length, whether its metadata can be parsed, and the metadata
Content(open, known, len, parse, exif) ==
    [open |-> open, known |-> known, len |-> len, parse |-> parse, exif |-> exif]

Unopenable == Content(FALSE, FALSE, 0, FALSE, NoFields)
\* a directory can be opened but not read
Directory(len) == Content(TRUE, TRUE, len, FALSE, NoFields)
Image(len, exif) == Content(TRUE, TRUE, len, TRUE, exif)

RunDisk ==
    [p \in Paths |->
        CASE p = pA -> Image(MinLen, ExifOf(Some("date1"), None, Some("date3"), Some("date3"), Some("note")))
          [] p = pPic -> Content(TRUE, FALSE, 0, TRUE, ExifOf(Some("nodate"), None, Some("date3"), None, None))
          [] p = pAbs -> Image(MinLen + 1, ExifOf(None, None, None, Some("date2"), None))
          [] p = pSmall -> Image(MinLen - 1, ExifOf(Some("date1"), None, None, None, None))
          [] p = pUp -> Directory(2 * MinLen)
          [] p = pRaw -> Image(MinLen, ExifOf(None, Some("date2"), Some("date3"), None, None))
          [] OTHER -> Unopenable]

\* every content a path with a file name may have
Contents ==
    {Unopenable}
    \cup { Content(TRUE, k, n, FALSE, NoFields) :
             k \in BOOLEAN, n \in {0, MinLen - 1, MinLen, MinLen + 1} }
    \cup { Content(TRUE, k, n, TRUE, NoFields) :
             k \in BOOLEAN, n \in {0, MinLen - 1, MinLen + 1} }
    \cup { Image(MinLen, e) : e \in Exifs }

\* a path without a file name is a directory
ContentsOf(p) ==
    IF p = pBlank THEN {Unopenable}
    ELSE IF file_name(p) = None
    THEN {Unopenable, Directory(MinLen - 1), Directory(MinLen)}
    ELSE Contents

\* the lines of the list files
ListDisk(list) ==
    CASE list = "l1" -> << <<" ">> \o pA \o <<"\t">>, <<>> >>
      [] list = "l2" -> << pAbs, pUp >>
      [] OTHER -> <<>>

Lists == {"l1", "l2"}

BoundedSeq(S, n) == UNION { [1..k -> S] : k \in 0..n }

\* the directories that exist when a first run begins
FreshDirs == { <<>>, << <<"w">> >>, << <<"w">>, <<"d">> >> }

\* the directories and links that exist after an earlier run, without --base,
\* has linked a.jpg
EarlierDirs ==
    FreshDirs \cup { << <<"w">>, <<"2", "0", "1", "6">> >>,
                     << <<"w">>, <<"2", "0", "1", "6">>, <<"0", "5">> >>,
                     << <<"w">>, <<"2", "0", "1", "6">>, <<"0", "5">>, <<"0", "4">> >> }
EarlierLinks ==
    { [at |-> << <<"w">>, <<"2", "0", "1", "6">>, <<"0", "5">>, <<"0", "4">>,
                 <<"0", "3", "-", "0", "2", "-", "0", "1", "-", "a", ".", "j", "p", "g">> >>,
       text |-> <<".", ".", "/", ".", ".", "/", ".", ".", "/", "a", ".", "j", "p", "g">>,
       file |-> pA] }

bO == <<"o">>
bDot == <<".">>
bDeep == <<"o", "/", "p">>
bAbs == <<"/", "o">>
bUp == <<".", ".", "/", "o">>

------------------------------------------------------------------------------
\* The run

\* main, lines 114-141 and 162: the state once the arguments are read.
\* b is the value of --base, if any; earlier says whether an earlier run has
\* left its directories and links.
Start(v, e, n, b, fs, ls, earlier, d) ==
    /\ verbose = v /\ dump = e /\ no_execute = n
    /\ base_set = (b # None)
    /\ base = IF b # None THEN Get(b) ELSE <<".">>
    /\ args_file = fs /\ lists = ls
    /\ files = fs
    /\ li = 1 /\ fi = 1 /\ pc = "lists"
    /\ disk = d
    /\ dirs = (IF earlier THEN EarlierDirs ELSE FreshDirs)
    /\ links = (IF earlier THEN EarlierLinks ELSE {})
    /\ dirs0 = dirs /\ links0 = links
    /\ printed = IF v THEN <<Noise("base", base)>> ELSE <<>>
    /\ last = None
    /\ handled = <<>>

\* runs over several files and lists, on a fixed disk
Init ==
    \E v, e, n, earlier \in BOOLEAN, b \in {None, Some(bO)},
       fs \in BoundedSeq({pPic, pSmall}, MaxPos), ls \in BoundedSeq(Lists, MaxLists) :
        Start(v, e, n, b, fs, ls, earlier, RunDisk)

\* runs over one file that may be anything, under any base, with an empty list
InitOne ==
    \E v, e, n \in BOOLEAN, b \in {None, Some(bO), Some(bDot), Some(bDeep), Some(bAbs), Some(bUp)},
       f \in {pA, pPic, pAbs, pUp, pRaw} :
        \E c \in ContentsOf(f) :
            Start(v, e, n, b, <<f>>, <<"l0">>, FALSE, [RunDisk EXCEPT ![f] = c])

\* the lines of a list put before the files already known
push_front(v, new) == new \o v

\* main, lines 149-155: files.push for each line read
push_lines(v, new) == v \o new

\* main, lines 143-156: read one list file. The file may fail to open, and
\* reading it may fail at any line (fail, 0 for no failure): both end the
\* program.
ReadList ==
    /\ pc = "lists"
    /\ li <= Len(lists)
    /\ \E open \in BOOLEAN, fail \in 0..Len(ListDisk(lists[li])) :
         LET lines == ListDisk(lists[li])
             read == fail = 0
             n == IF read THEN Len(lines) ELSE fail - 1
         IN  IF ~open
             THEN /\ pc' = "panic"
                  /\ printed' = <<>>
                  /\ UNCHANGED <<files, li>>
             ELSE /\ files' = push_lines(files, [i \in 1..n |-> trim(lines[i])])
                  /\ printed' =
                       IF verbose
                       THEN <<Noise("list", lists[li])>>
                            \o [i \in 1..n |-> Noise("line", lines[i])]
                       ELSE <<>>
                  /\ pc' = IF read THEN "lists" ELSE "panic"
                  /\ li' = IF read THEN li + 1 ELSE li
    /\ UNCHANGED <<verbose, dump, no_execute, base_set, base, args_file, lists, fi,
                   disk, dirs, links, dirs0, links0, last, handled>>

\* main, lines 158-167
Banner ==
    /\ pc = "lists"
    /\ li > Len(lists)
    /\ pc' = "files"
    /\ printed' =
         (IF verbose THEN <<Noise("files", files)>> ELSE <<>>)
         \o (IF verbose /\ no_execute THEN <<Noise("not executing", <<>>)>>
             ELSE <<[k |-> "executing"]>>)
    /\ UNCHANGED <<verbose, dump, no_execute, base_set, base, args_file, lists, files,
                   li, fi, disk, dirs, links, dirs0, links0, last, handled>>

\* what one pass of the file loop computed: the link text, the error that
\* ended the pass, the date text found and the target path, if any
Pass(file, src, err, datetime, targ) ==
    Some([file |-> file, src |-> src, err |-> err, datetime |-> datetime, targ |-> targ])

\* a pass that goes on to make links even with --exif
never_dump_only == FALSE

\* main, line 197: with --exif the pass ends once the target is printed
dump_only == dump

\* a run that makes links even with --no-execute
always_executes == TRUE

\* main, lines 209 and 218: directories and links are made unless --no-execute
executes == ~no_execute

\* main, lines 206-224: make the directory and the link for targ.
\* before holds the lines the pass has printed so far; mkOk and lnOk say
\* whether the system lets the directory and the link be made.
make_links(file, src, targ, before, mkOk, lnOk) ==
    LET parent == ResolveParent(targ)
        name == file_name(targ)
        needDir == HasParent(targ) /\ ~Exists(parent)
        mkdir == needDir /\ executes
        newDirs == IF mkdir /\ mkOk THEN dirs \cup Prefixes(parent) ELSE dirs
        symlink == executes
        linked == symlink /\ lnOk /\ CanLink(parent, name, newDirs, links)
    IN  /\ dirs' = newDirs
        /\ links' = IF linked
                    THEN links \cup {[at |-> Append(parent, Get(name)), text |-> src, file |-> file]}
                    ELSE links
        /\ printed' =
             before
             \o (IF verbose THEN <<Noise("linking", <<src, targ>>)>> ELSE <<>>)
             \o (IF needDir THEN <<[k |-> "mkdir", of |-> targ]>> ELSE <<>>)
             \o (IF mkdir /\ ~mkOk THEN <<[k |-> "error", e |-> "create_dir_all"]>> ELSE <<>>)
             \o <<[k |-> "ln", src |-> src, targ |-> targ]>>
             \o (IF symlink /\ ~linked THEN <<[k |-> "error", e |-> "symlink"]>> ELSE <<>>)

\* main, lines 169-225: one pass of the file loop
HandleFile ==
    /\ pc = "files"
    /\ fi <= Len(files)
    /\ LET file == files[fi]
           src == link_source(file)
           working == IF verbose THEN <<Noise("working", file)>> ELSE <<>>
           exif == get_exif(file, dump)
       IN  /\ fi' = fi + 1
           /\ handled' = Append(handled, file)
           /\ IF ~exif.ok
              THEN /\ printed' = working \o exif.out \o <<ErrorLine(exif.err)>>
                   /\ last' = Pass(file, src, Some(exif.err), None, None)
                   /\ UNCHANGED <<dirs, links>>
              ELSE LET targ == link_name(exif.val, file, base, verbose)
                   IN  IF ~targ.ok
                       THEN /\ printed' = working \o exif.out \o targ.out \o <<ErrorLine(targ.err)>>
                            /\ last' = Pass(file, src, Some(targ.err), None, None)
                            /\ UNCHANGED <<dirs, links>>
                       ELSE /\ last' = Pass(file, src, None,
                                            Some(first_of(file, exif.val, DATETIME).val),
                                            Some(targ.val))
                            /\ IF dump_only
                               THEN /\ printed' = working \o exif.out \o targ.out
                                                   \o <<[k |-> "target", targ |-> targ.val]>>
                                    /\ UNCHANGED <<dirs, links>>
                               ELSE \E mkOk, lnOk \in BOOLEAN :
                                        make_links(file, src, targ.val,
                                                   working \o exif.out \o targ.out,
                                                   mkOk, lnOk)
    /\ UNCHANGED <<verbose, dump, no_execute, base_set, base, args_file, lists, files,
                   li, pc, disk, dirs0, links0>>

\* main returns after the last file
Finish ==
    /\ pc = "files"
    /\ fi > Len(files)
    /\ pc' = "done"
    /\ printed' = <<>>
    /\ UNCHANGED <<verbose, dump, no_execute, base_set, base, args_file, lists, files,
                   li, fi, disk, dirs, links, dirs0, links0, last, handled>>

Next == ReadList \/ Banner \/ HandleFile \/ Finish

Spec == Init /\ [][Next]_vars

\* The steps of the file loop, by what they do to fi and pc: HandleFile is
\* enabled exactly when Advance is and its steps are the Advance steps of
\* Next; the same holds of Finish and Return.
Advance == pc = "files" /\ fi <= Len(files) /\ fi' = fi + 1
Return == pc = "files" /\ fi > Len(files) /\ pc' = "done"

\* the program is sequential: the loop takes its next step whenever it has one
FairSpec == Init /\ [][Next]_vars /\ WF_fi(Advance) /\ WF_pc(Return)

SpecOne == InitOne /\ [][Next]_vars

------------------------------------------------------------------------------
\* Properties

\* the latest step was a pass of the file loop
JustHandled == pc = "files" /\ last # None

\* the latest step printed a line of kind k
HasLine(k) == \E i \in 1..Len(printed) : printed[i].k = k

\* the pass got as far as looking for the date
SoughtDate(p) == p.err = None \/ Get(p.err).kind = "MissingField"

\* the i-th date field is in the primary image of e
Present(e, i) == e[<<DATETIME[i], "PRIMARY">>] # None

\* dt has the form "YYYY-MM-DD HH:MM:SS"
WellFormed(dt) ==
    /\ Len(dt) = 19
    /\ \A i \in 1..19 :
         dt[i] \in (CASE i \in {5, 8} -> {"-"} [] i = 11 -> {" "}
                      [] i \in {14, 17} -> {":"} [] OTHER -> Digits)

\* YYYY/MM/DD/HH-MM-SS- for a well-formed dt
DatePath(dt) ==
    [i \in 1..20 |-> IF i \in {5, 8, 11} THEN "/" ELSE IF i \in {14, 17, 20} THEN "-" ELSE dt[i]]

\* the text of p after its last "/"
LastComponent(p) ==
    LET slashes == { i \in 1..Len(p) : p[i] = "/" }
        from == IF slashes = {} THEN 1
                ELSE (CHOOSE i \in slashes : \A j \in slashes : j <= i) + 1
    IN  SubSeq(p, from, Len(p))

Dashed(s) == [i \in 1..Len(s) |-> IF s[i] = " " THEN "-" ELSE s[i]]
Lossy(s) == [i \in 1..Len(s) |-> IF s[i] = "xFF" THEN "uFFFD" ELSE s[i]]

\* C1: every link the run makes at a date-based target path leads back to the
\* input file: the link's text, followed from the directory that holds the
\* link, names the place the file's own path names, whatever the base
\* directory and the file's path.
C1_LinkPointsBack ==
    \A l \in links \ links0 :
        (/\ last # None
         /\ Get(last).file = l.file
         /\ Get(last).datetime # None
         /\ WellFormed(Get(Get(last).datetime)))
        => ResolveFrom(SubSeq(l.at, 1, Len(l.at) - 1), l.text) = Resolve(l.file)

\* C2: the date text of a file is the shown value of the first of
\* DateTimeDigitized, DateTimeOriginal, DateTime that the primary image holds,
\* whatever other fields the file has.
C2_FirstPresentTagWins ==
    last # None =>
        LET p == Get(last)
            e == disk[p.file].exif
        IN  SoughtDate(p) =>
                \A i \in 1..Len(DATETIME) :
                    (Present(e, i) /\ \A j \in 1..(i - 1) : ~Present(e, j))
                    => p.datetime = Some(display_value(Get(e[<<DATETIME[i], "PRIMARY">>])))

\* a file with only DateTime in its primary image, and other fields, got the
\* date of DateTime
C2_Witness ==
    /\ last # None
    /\ Get(last).datetime = Some(DT3)
    /\ ~Present(disk[Get(last).file].exif, 1)
    /\ ~Present(disk[Get(last).file].exif, 2)
    /\ disk[Get(last).file].exif[<<"DateTimeDigitized", "THUMBNAIL">>] # None

\* C3 as stated: for a date text of the form "YYYY-MM-DD HH:MM:SS" the target
\* is <base>/YYYY/MM/DD/HH-MM-SS-<name>, <name> being the last component of the
\* input path with every space replaced by "-".
C3_TargetPath ==
    (last # None /\ Get(last).datetime # None /\ WellFormed(Get(Get(last).datetime)))
    => Get(last).targ =
         Some(base \o <<"/">> \o DatePath(Get(Get(last).datetime))
              \o Dashed(LastComponent(Get(last).file)))

\* C3, amended: the same, <name> being the last component of the input path
\* with every byte sequence that is not valid UTF-8 replaced by U+FFFD and
\* every space replaced by "-".
C3_TargetPathLossy ==
    (last # None /\ Get(last).datetime # None /\ WellFormed(Get(Get(last).datetime)))
    => Get(last).targ =
         Some(base \o <<"/">> \o DatePath(Get(Get(last).datetime))
              \o Dashed(Lossy(LastComponent(Get(last).file))))

\* "d/b c.jpg" dated 2016-05-04 03:02:01 under the base o/p
C3_Witness ==
    /\ last # None
    /\ Get(last).file = pPic
    /\ Get(last).targ =
         Some(<<"o", "/", "p", "/", "2", "0", "1", "6", "/", "0", "5", "/", "0", "4", "/",
                "0", "3", "-", "0", "2", "-", "0", "1", "-", "b", "-", "c", ".", "j", "p", "g">>)

\* C4: with --exif no directory and no link is made, and no "mkdir -p" and no
\* "ln -s" line is printed, whatever the other options.
C4_DumpMakesNoLinks ==
    dump => /\ dirs = dirs0 /\ links = links0
            /\ ~HasLine("mkdir") /\ ~HasLine("ln")

\* a file was resolved with --exif and without --no-execute
C4_Witness ==
    /\ dump /\ ~no_execute
    /\ JustHandled /\ Get(last).targ # None
    /\ HasLine("target")

\* C5 as stated: with --no-execute no directory and no link is made, and the
\* "mkdir -p" and "ln -s" lines of each resolved file are still printed.
C5_NoExecutePrintsBoth ==
    no_execute =>
        /\ dirs = dirs0 /\ links = links0
        /\ (JustHandled /\ Get(last).targ # None) => (HasLine("mkdir") /\ HasLine("ln"))

\* C5, amended: with --no-execute no directory and no link is made; unless
\* --exif is given too, the "ln -s" line of each resolved file is printed,
\* and its "mkdir -p" line is printed when the directory of the target does
\* not exist.
C5_NoExecutePrints ==
    no_execute =>
        /\ dirs = dirs0 /\ links = links0
        /\ (JustHandled /\ Get(last).targ # None /\ ~dump) =>
              /\ HasLine("ln")
              /\ HasLine("mkdir") <=> ~Exists(ResolveParent(Get(Get(last).targ)))

\* a file was resolved with --no-execute, and both lines were printed
C5_Witness ==
    /\ no_execute /\ ~dump
    /\ JustHandled /\ Get(last).targ # None
    /\ HasLine("mkdir") /\ HasLine("ln")

\* C6: a file with none of the three date fields in its primary image gets
\* the MissingField error that names DateTimeDigitized and the file's path, and
\* no target, no directory and no link.
C6_NoDateNoLink ==
    last # None =>
        LET p == Get(last)
            e == disk[p.file].exif
        IN  (SoughtDate(p) /\ \A i \in 1..Len(DATETIME) : ~Present(e, i)) =>
                /\ p.err = Some([kind |-> "MissingField", path |-> p.file,
                                 field |-> Get(description("DateTimeDigitized"))])
                /\ p.datetime = None /\ p.targ = None
                /\ dirs = dirs0 /\ links = links0
                /\ ~HasLine("mkdir") /\ ~HasLine("ln") /\ ~HasLine("target")

\* a file whose only date is in its thumbnail was refused, in a run that
\* makes links
C6_Witness ==
    /\ JustHandled /\ ~dump /\ ~no_execute
    /\ Get(last).err # None /\ Get(Get(last).err).kind = "MissingField"
    /\ disk[Get(last).file].exif[<<"DateTimeDigitized", "THUMBNAIL">>] # None

\* C7: a file is refused as too small exactly when its length is known and
\* below 102400; the error carries the path and the length, comes whether or
\* not the metadata could be parsed, and no link is made.
C7_TooSmall ==
    last # None =>
        LET p == Get(last)
            c == disk[p.file]
            refused == p.err # None /\ Get(p.err).kind = "TooSmall"
        IN  /\ refused <=> (c.open /\ c.known /\ c.len < 102400)
            /\ refused =>
                 /\ p.err = Some([kind |-> "TooSmall", path |-> p.file, len |-> c.len])
                 /\ p.targ = None
                 /\ dirs = dirs0 /\ links = links0

\* a file of 102399 bytes with metadata that parses was refused
C7_Witness ==
    /\ JustHandled
    /\ Get(last).err # None /\ Get(Get(last).err).kind = "TooSmall"
    /\ disk[Get(last).file].len = 102399
    /\ disk[Get(last).file].parse

RECURSIVE LinesOf(_, _)
\* the trimmed lines of the list files ls, from the i-th list on
LinesOf(ls, i) ==
    IF i > Len(ls) THEN <<>>
    ELSE [j \in 1..Len(ListDisk(ls[i])) |-> trim(ListDisk(ls[i])[j])] \o LinesOf(ls, i + 1)

\* the input files of the run, in order
AllFiles == args_file \o LinesOf(lists, 1)

\* there is a link at the path targ
LinkAt(targ) ==
    \E l \in links : l.at = Append(ResolveParent(targ), Get(file_name(targ)))

====
